---- MODULE Spec2Model ----
(***************************************************************************)
(* The FIFO ledger of data/base.py (class FifoPortfolio) and its canonical *)
(* export, as a state machine.  One action per public method; every call   *)
(* records what was called, what it raised and what it returned.  The      *)
(* readers that feed the ledger (data/mt5_reader.py, data/mt4_reader.py)   *)
(* and the second copy of the ledger in data/mt5_reader.py follow it.      *)
(*                                                                         *)
(* Python's None / NaN for an optional value is the empty tuple, a present *)
(* value v is <<v>> where the two must be told apart in one field.         *)
(***************************************************************************)
EXTENDS Integers, Sequences, FiniteSets, TLC

VARIABLES
    _deposits,          \* FifoPortfolio._deposits: list of Deposit
    _opened_positions,  \* FifoPortfolio._opened_positions: list of Position
    _closed_positions,  \* FifoPortfolio._closed_positions: list of Position
    _last_id,           \* FifoPortfolio._last_id: the shared ticket counter
    call,               \* the last method call: its name and arguments
    raised,             \* the exception the last call raised (NoException if none)
    ret,                \* the value the last call returned (None, or <<table>>)
    again,              \* TRUE when the last call repeats as_cannonical_data() with no call in between
    _data,              \* Mt5Reader._data: the rows of the report the reader has loaded
    _order_map          \* Mt4HTMLReader._order_map: order number -> the row that opened it

vars == <<_deposits, _opened_positions, _closed_positions, _last_id,
          call, raised, ret, again, _data, _order_map>>

ledger == <<_deposits, _opened_positions, _closed_positions, _last_id>>

\* what the readers keep beside their ledger
readers == <<_data, _order_map>>

-----------------------------------------------------------------------------
(* Bounds of the model *)

MaxTickets == 3

-----------------------------------------------------------------------------
(* Values *)

None == <<>>
Some(v) == <<v>>
NaN == "NaN"

isna(x) == x = None

BUY == "Buy"
SELL == "Sell"
PosType == {BUY, SELL}

\* the side passed on as it is
inverse_same(self) == self

inverse(self) == IF self = BUY THEN SELL ELSE BUY

\* a column order with Net profit ahead of Profit, Swap and Commission
CANONICAL_COL_ORDER_NET_FIRST ==
    << "Type", "Ticket", "Symbol", "Lots", "Buy/sell", "Open price",
       "Close price", "Open time", "Close time", "Net profit", "Profit",
       "Swap", "Commission", "T/P", "S/L", "Magic number",
       "Order comment" >>

CANONICAL_COL_ORDER ==
    << "Type", "Ticket", "Symbol", "Lots", "Buy/sell", "Open price",
       "Close price", "Open time", "Close time", "Profit", "Swap",
       "Commission", "Net profit", "T/P", "S/L", "Magic number",
       "Order comment" >>

-----------------------------------------------------------------------------
(* Inputs: the arguments the callers pass *)

Symbols == {"EURUSD", "GBPUSD"}
Volumes == {1, 2}

\* the (symbol, side, volume) keys of the deals: one key and every key that
\* differs from it in one of the three fields
BaseKey == <<"EURUSD", BUY, 1>>
Keys ==
    {k \in Symbols \X PosType \X Volumes :
        Cardinality({i \in 1..3 : k[i] # BaseKey[i]}) <= 1}

\* what a deal carries besides its key: a deal with every field set, and a
\* deal with no comment and no amounts, as a report lists an opening deal
FullFill ==
    [time |-> 2, price |-> 12, comment |-> Some("tp-hit"),
     swap |-> -1, commission |-> -2, profit |-> 5]
BareFill ==
    [time |-> 1, price |-> 11, comment |-> None,
     swap |-> 0, commission |-> 0, profit |-> 0]
Fills == {FullFill, BareFill}

\* Trade(time=..., symbol=..., pos_type=..., ...)
Deal(k, f) ==
    [time |-> f.time, symbol |-> k[1], pos_type |-> k[2], volume |-> k[3],
     price |-> f.price, comment |-> f.comment, swap |-> f.swap,
     commission |-> f.commission, profit |-> f.profit]

\* the deals passed to open_position and close_position: the deal of the
\* base key with every field set, and each deal that differs from it in the
\* symbol, in the side, in the volume or in the other fields
Trade == {Deal(k, FullFill) : k \in Keys} \cup {Deal(BaseKey, f) : f \in Fills}

\* the (time, amount) pairs passed to deposit: a deposit and a withdrawal
Deposits == {[time |-> 1, amount |-> 100], [time |-> 2, amount |-> -40]}

NoException == [exc |-> "None", msg |-> <<>>]

ValueError(msg) == [exc |-> "ValueError", msg |-> msg]

-----------------------------------------------------------------------------
(* Sequence helpers *)

Last(s) == s[Len(s)]

Range(s) == {s[i] : i \in 1..Len(s)}

\* a removal that puts the entries after the removed one in front of the others
ListRemoveRotate(s, x) ==
    LET i == CHOOSE k \in 1..Len(s) : s[k] = x /\ \A j \in 1..(k-1) : s[j] # x
    IN  SubSeq(s, i+1, Len(s)) \o SubSeq(s, 1, i-1)

\* list.remove(x): drops the first element equal to x
ListRemove(s, x) ==
    LET i == CHOOSE k \in 1..Len(s) : s[k] = x /\ \A j \in 1..(k-1) : s[j] # x
    IN  SubSeq(s, 1, i-1) \o SubSeq(s, i+1, Len(s))

\* seq.index(x) (1-based)
IndexOf(s, x) == CHOOSE i \in 1..Len(s) : s[i] = x

-----------------------------------------------------------------------------
(* Tables: the part of pandas.DataFrame the export uses.  A table has its  *)
(* column labels in order, its index labels, and one row per index label;  *)
(* a row holds one cell per column, in the order of the columns.           *)

RangeIndex(n) == [i \in 1..n |-> i - 1]

\* pd.DataFrame(data, columns=columns), data a list of lists
DataFrame(data, columns) ==
    [columns |-> columns, index |-> RangeIndex(Len(data)), rows |-> data]

\* df[c]: the cells of column c, one per row
Column(df, c) ==
    LET place == IndexOf(df.columns, c)
    IN  [i \in 1..Len(df.rows) |-> df.rows[i][place]]

\* for each label of `to`, its place in `from` (0 when `from` lacks it)
Places(from, to) ==
    [j \in 1..Len(to) |->
        IF to[j] \in Range(from) THEN IndexOf(from, to[j]) ELSE 0] \o <<>>

\* a row laid out over other columns; a column the row lacks gets NaN
Reindex(row, places) ==
    [j \in 1..Len(places) |->
        IF places[j] = 0 THEN NaN ELSE row[places[j]]]

\* df.reindex(columns=columns), places being Places(df.columns, columns)
reindex(df, columns, places) ==
    [columns |-> columns,
     index |-> df.index,
     rows |-> [i \in 1..Len(df.rows) |-> Reindex(df.rows[i], places)]]

\* the columns of pd.concat([a, b]): those of a, then the new ones of b
ConcatColumns(a, b) == a \o SelectSeq(b, LAMBDA c : c \notin Range(a))

\* pd.concat([a, b]) of two frames over the same columns
concat(a, b) ==
    [columns |-> a.columns,
     index |-> a.index \o b.index,
     rows |-> a.rows \o b.rows]

\* insertion of row number k into the row numbers p, which are in
\* ascending order of their keys
RECURSIVE InsertBy(_, _, _)
InsertBy(p, k, keys) ==
    IF p = <<>> THEN <<k>>
    ELSE IF keys[Head(p)] <= keys[k]
         THEN <<Head(p)>> \o InsertBy(Tail(p), k, keys)
         ELSE <<k>> \o p

\* the row numbers 1..n in ascending order of their keys
RECURSIVE SortedOrder(_, _)
SortedOrder(n, keys) ==
    IF n = 0 THEN <<>>
    ELSE InsertBy(SortedOrder(n - 1, keys), n, keys)

\* df.sort_values(by=by)
sort_values(df, by) ==
    LET order == SortedOrder(Len(df.rows), Column(df, by))
    IN  [columns |-> df.columns,
         index |-> [i \in 1..Len(order) |-> df.index[order[i]]],
         rows |-> [i \in 1..Len(order) |-> df.rows[order[i]]]]

\* x + y of two columns, cell by cell
SeriesAdd(x, y) == [i \in 1..Len(x) |-> x[i] + y[i]]

\* a scalar assigned to a column: the same cell in every row
Broadcast(df, value) == [i \in 1..Len(df.rows) |-> value]

\* df[col] = series: a new column goes last, an old one is overwritten
SetColumn(df, col, series) ==
    IF col \in Range(df.columns)
    THEN [df EXCEPT !.rows =
            [i \in 1..Len(df.rows) |->
                [df.rows[i] EXCEPT ![IndexOf(df.columns, col)] = series[i]]]]
    ELSE [df EXCEPT !.columns = Append(df.columns, col),
                    !.rows = [i \in 1..Len(df.rows) |->
                                Append(df.rows[i], series[i])]]

\* df.reset_index(drop=True)
reset_index(df) == [df EXCEPT !.index = RangeIndex(Len(df.rows))]

-----------------------------------------------------------------------------
(* The ledger *)

\* a deposit built with its time in the place of its ticket
DepositTimeFirst(id, time, amount) == [id |-> time, time |-> id, amount |-> amount]

Deposit(id, time, amount) == [id |-> id, time |-> time, amount |-> amount]

Init ==
    /\ _deposits = <<>>
    /\ _opened_positions = <<>>
    /\ _closed_positions = <<>>
    /\ _last_id = 0
    /\ call = [op |-> "__init__", args |-> <<>>]
    /\ raised = NoException
    /\ ret = None
    /\ again = FALSE
    /\ _data = <<>>
    /\ _order_map = <<>>

\* a test that is true once any position was opened, open or closed
has_open_positions_ever ==
    Len(_opened_positions) + Len(_closed_positions) > 0

has_open_positions == Len(_opened_positions) > 0

\* a call of has_open_positions(): the value above is returned
call_has_open_positions ==
    /\ call' = [op |-> "has_open_positions", args |-> <<>>]
    /\ raised' = NoException
    /\ ret' = Some(has_open_positions)
    /\ again' = FALSE
    /\ UNCHANGED ledger

\* deposit numbering its entries by their place in the deposit list
deposit_own_counter(time, amount) ==
    /\ _last_id < MaxTickets
    /\ _deposits' = Append(_deposits, Deposit(Len(_deposits) + 1, time, amount))
    /\ UNCHANGED <<_opened_positions, _closed_positions, _last_id>>
    /\ call' = [op |-> "deposit", args |-> [time |-> time, amount |-> amount]]
    /\ raised' = NoException
    /\ ret' = None
    /\ again' = FALSE

deposit(time, amount) ==
    /\ _last_id < MaxTickets
    /\ _last_id' = _last_id + 1
    /\ _deposits' = Append(_deposits, Deposit(_last_id', time, amount))
    /\ UNCHANGED <<_opened_positions, _closed_positions>>
    /\ call' = [op |-> "deposit", args |-> [time |-> time, amount |-> amount]]
    /\ raised' = NoException
    /\ ret' = None
    /\ again' = FALSE

\* the amounts of a deal are numbers here, so the pd.isna(trade.profit) branch
\* of open_position is the one that keeps trade.profit
Position(id, trade) ==
    [id |-> id,
     open_time |-> trade.time,
     symbol |-> trade.symbol,
     type |-> trade.pos_type,
     volume |-> trade.volume,
     open_price |-> trade.price,
     comment |-> IF isna(trade.comment) THEN "" ELSE trade.comment[1],
     close_time |-> None,
     close_price |-> None,
     swap |-> trade.swap,
     commission |-> trade.commission,
     profit |-> trade.profit]

\* opening that puts the new position at the head of the open list
open_position_prepend(trade) ==
    /\ _last_id < MaxTickets
    /\ _last_id' = _last_id + 1
    /\ _opened_positions' = <<Position(_last_id', trade)>> \o _opened_positions
    /\ UNCHANGED <<_deposits, _closed_positions>>
    /\ call' = [op |-> "open_position", args |-> trade]
    /\ raised' = NoException
    /\ ret' = None
    /\ again' = FALSE

\* opening that numbers the position with the counter as it was
open_position_stale_ticket(trade) ==
    /\ _last_id < MaxTickets
    /\ _last_id' = _last_id + 1
    /\ _opened_positions' = Append(_opened_positions, Position(_last_id, trade))
    /\ UNCHANGED <<_deposits, _closed_positions>>
    /\ call' = [op |-> "open_position", args |-> trade]
    /\ raised' = NoException
    /\ ret' = None
    /\ again' = FALSE

open_position(trade) ==
    /\ _last_id < MaxTickets
    /\ _last_id' = _last_id + 1
    /\ _opened_positions' = Append(_opened_positions, Position(_last_id', trade))
    /\ UNCHANGED <<_deposits, _closed_positions>>
    /\ call' = [op |-> "open_position", args |-> trade]
    /\ raised' = NoException
    /\ ret' = None
    /\ again' = FALSE

\* matching on symbol and side alone
MatchesAnyVolume(pos, trade) ==
    /\ pos.symbol = trade.symbol
    /\ pos.type = trade.pos_type

\* the condition of the list comprehension in close_position
Matches(pos, trade) ==
    /\ pos.symbol = trade.symbol
    /\ pos.type = trade.pos_type
    /\ pos.volume = trade.volume

\* the open positions of the symbol, whatever their side and volume
OpenedMatchingSymbol(trade) ==
    SelectSeq(_opened_positions, LAMBDA pos : pos.symbol = trade.symbol)

\* opened = [pos for pos in self._opened_positions if ...]
OpenedMatching(trade) ==
    SelectSeq(_opened_positions, LAMBDA pos : Matches(pos, trade))

NoOpenPosition(trade) ==
    ValueError(<<"No open position for symbol: ", trade.symbol,
                 " and type: ", trade.pos_type,
                 " and volume: ", trade.volume>>)

\* pos = opened[-1]
SelectPositionLast(opened) == opened[Len(opened)]

\* pos = opened[0]
SelectPosition(opened) == opened[1]

\* closing that writes the deal's time and price to the open fields as well
ClosePosOpenFields(pos, trade) ==
    [pos EXCEPT
        !.open_time = trade.time,
        !.open_price = trade.price,
        !.close_time = Some(trade.time),
        !.close_price = Some(trade.price),
        !.comment = IF ~isna(trade.comment)
                    THEN @ \o " [" \o trade.comment[1] \o "]"
                    ELSE @,
        !.swap = @ + trade.swap,
        !.commission = @ + trade.commission,
        !.profit = @ + trade.profit]

\* closing that assigns the deal's amounts instead of adding them
ClosePosOverwrite(pos, trade) ==
    [pos EXCEPT
        !.close_time = Some(trade.time),
        !.close_price = Some(trade.price),
        !.comment = IF ~isna(trade.comment)
                    THEN @ \o " [" \o trade.comment[1] \o "]"
                    ELSE @,
        !.swap = trade.swap,
        !.commission = trade.commission,
        !.profit = trade.profit]

\* closing that appends the bracketed comment without the space
ClosePosCommentNoSpace(pos, trade) ==
    [pos EXCEPT
        !.close_time = Some(trade.time),
        !.close_price = Some(trade.price),
        !.comment = IF ~isna(trade.comment)
                    THEN @ \o "[" \o trade.comment[1] \o "]"
                    ELSE @,
        !.swap = @ + trade.swap,
        !.commission = @ + trade.commission,
        !.profit = @ + trade.profit]

\* a close that stamps the open time with the closing deal's time and the
\* close time with the time the position was opened
ClosePosSwapTimes(pos, trade) ==
    [pos EXCEPT
        !.open_time = trade.time,
        !.close_time = Some(pos.open_time),
        !.close_price = Some(trade.price),
        !.comment = IF ~isna(trade.comment)
                    THEN @ \o " [" \o trade.comment[1] \o "]"
                    ELSE @,
        !.swap = @ + trade.swap,
        !.commission = @ + trade.commission,
        !.profit = @ + trade.profit]

\* the assignments close_position makes to the position it closes
ClosePos(pos, trade) ==
    [pos EXCEPT
        !.close_time = Some(trade.time),
        !.close_price = Some(trade.price),
        !.comment = IF ~isna(trade.comment)
                    THEN @ \o " [" \o trade.comment[1] \o "]"
                    ELSE @,
        !.swap = @ + trade.swap,
        !.commission = @ + trade.commission,
        !.profit = @ + trade.profit]

\* closing that takes the head of the open list before it tests the key
close_position_pop_first(trade) ==
    /\ call' = [op |-> "close_position", args |-> trade]
    /\ ret' = None
    /\ again' = FALSE
    /\ IF _opened_positions = <<>>
       THEN /\ raised' = NoOpenPosition(trade)
            /\ UNCHANGED ledger
       ELSE LET pos == Head(_opened_positions) IN
            /\ _opened_positions' = Tail(_opened_positions)
            /\ UNCHANGED <<_deposits, _last_id>>
            /\ IF Matches(pos, trade)
               THEN /\ _closed_positions' =
                          Append(_closed_positions, ClosePos(pos, trade))
                    /\ raised' = NoException
               ELSE /\ raised' = NoOpenPosition(trade)
                    /\ UNCHANGED _closed_positions

\* closing that leaves the position it closes in the open list
close_position_keep_open(trade) ==
    LET opened == OpenedMatching(trade) IN
    /\ call' = [op |-> "close_position", args |-> trade]
    /\ ret' = None
    /\ again' = FALSE
    /\ IF opened = <<>>
       THEN /\ raised' = NoOpenPosition(trade)
            /\ UNCHANGED ledger
       ELSE LET pos == SelectPosition(opened) IN
            /\ Len(_closed_positions) < MaxTickets
            /\ _closed_positions' = Append(_closed_positions, ClosePos(pos, trade))
            /\ raised' = NoException
            /\ UNCHANGED <<_deposits, _opened_positions, _last_id>>

close_position(trade) ==
    LET opened == OpenedMatching(trade) IN
    /\ call' = [op |-> "close_position", args |-> trade]
    /\ ret' = None
    /\ again' = FALSE
    /\ IF opened = <<>>
       THEN /\ raised' = NoOpenPosition(trade)
            /\ UNCHANGED ledger
       ELSE LET pos == SelectPosition(opened) IN
            /\ _opened_positions' = ListRemove(_opened_positions, pos)
            /\ _closed_positions' = Append(_closed_positions, ClosePos(pos, trade))
            /\ raised' = NoException
            /\ UNCHANGED <<_deposits, _last_id>>

\* the first frame of as_cannonical_data: one row per deposit
DepositsColumns ==
    <<"Type", "Ticket", "Profit", "Open time", "Close time",
      "Order comment", "Lots", "Open price", "Close price", "Swap",
      "Commission">>

PositionsColumns ==
    <<"Type", "Ticket", "Symbol", "Lots", "Buy/sell", "Open price",
      "Close price", "Open time", "Close time", "Order comment", "Swap",
      "Commission", "Profit">>

ResultColumns == ConcatColumns(DepositsColumns, PositionsColumns)
DepositsPlaces == Places(DepositsColumns, ResultColumns)
PositionsPlaces == Places(PositionsColumns, ResultColumns)
AllColumns == ResultColumns \o <<"Net profit", "T/P", "S/L", "Magic number">>
CanonicalPlaces == Places(AllColumns, CANONICAL_COL_ORDER)

\* a deposits frame with the amount and the time of a deposit exchanged
DepositsFrameSwapped ==
    DataFrame(
        [i \in 1..Len(_deposits) |->
            LET tx == _deposits[i] IN
            <<"Deposit", tx.id, tx.time, tx.amount, tx.amount, "Deposit",
              0, 0, 0, 0, 0>>],
        DepositsColumns)

DepositsFrame ==
    DataFrame(
        [i \in 1..Len(_deposits) |->
            LET tx == _deposits[i] IN
            <<"Deposit", tx.id, tx.amount, tx.time, tx.time, "Deposit",
              0, 0, 0, 0, 0>>],
        DepositsColumns)

\* a positions frame that lists the open positions after the closed ones
PositionsFrameAll ==
    DataFrame(
        [i \in 1..(Len(_closed_positions) + Len(_opened_positions)) |->
            LET pos == (_closed_positions \o _opened_positions)[i] IN
            <<"Closed position", pos.id, pos.symbol, pos.volume, pos.type,
              pos.open_price,
              IF pos.close_price = None THEN 0 ELSE pos.close_price[1],
              pos.open_time,
              IF pos.close_time = None THEN 0 ELSE pos.close_time[1],
              pos.comment, pos.swap, pos.commission, pos.profit>>],
        PositionsColumns)

\* a positions frame with the open price and the close price exchanged
PositionsFrameSwapped ==
    DataFrame(
        [i \in 1..Len(_closed_positions) |->
            LET pos == _closed_positions[i] IN
            <<"Closed position", pos.id, pos.symbol, pos.volume, pos.type,
              pos.close_price[1], pos.open_price, pos.open_time,
              pos.close_time[1], pos.comment, pos.swap, pos.commission,
              pos.profit>>],
        PositionsColumns)

\* the second frame of as_cannonical_data: one row per closed position
PositionsFrame ==
    DataFrame(
        [i \in 1..Len(_closed_positions) |->
            LET pos == _closed_positions[i] IN
            <<"Closed position", pos.id, pos.symbol, pos.volume, pos.type,
              pos.open_price, pos.close_price[1], pos.open_time,
              pos.close_time[1], pos.comment, pos.swap, pos.commission,
              pos.profit>>],
        PositionsColumns)

\* result = pd.concat([deposits, positions])
ConcatUnsorted ==
    concat(reindex(DepositsFrame, ResultColumns, DepositsPlaces),
           reindex(PositionsFrame, ResultColumns, PositionsPlaces))

\* result = pd.concat([deposits, positions]).sort_values(by="Ticket")
ConcatSorted ==
    sort_values(
        concat(reindex(DepositsFrame, ResultColumns, DepositsPlaces),
               reindex(PositionsFrame, ResultColumns, PositionsPlaces)),
        "Ticket")

\* result.Profit + result.Swap
NetProfitNoCommission(result) ==
    SeriesAdd(Column(result, "Profit"), Column(result, "Swap"))

\* result.Profit + result.Swap + result.Commission
NetProfit(result) ==
    SeriesAdd(SeriesAdd(Column(result, "Profit"), Column(result, "Swap")),
              Column(result, "Commission"))

\* the table as_cannonical_data returns
CanonicalData ==
    LET result == ConcatSorted
        r1 == SetColumn(result, "Net profit", NetProfit(result))
        r2 == SetColumn(r1, "T/P", Broadcast(r1, 0))
        r3 == SetColumn(r2, "S/L", Broadcast(r2, 0))
        r4 == SetColumn(r3, "Magic number", Broadcast(r3, 0))
    IN  reset_index(reindex(r4, CANONICAL_COL_ORDER, CanonicalPlaces))

\* an export that refuses a ledger with open positions
as_cannonical_data_checked ==
    /\ call' = [op |-> "as_cannonical_data", args |-> <<>>]
    /\ IF has_open_positions
       THEN /\ raised' = ValueError(<<"Some positions are still open">>)
            /\ ret' = None
       ELSE /\ raised' = NoException
            /\ ret' = Some(CanonicalData)
    /\ again' = (call.op = "as_cannonical_data")
    /\ UNCHANGED ledger

\* an export that hands the deposits over and forgets them
as_cannonical_data_draining ==
    /\ call' = [op |-> "as_cannonical_data", args |-> <<>>]
    /\ raised' = NoException
    /\ ret' = Some(CanonicalData)
    /\ again' = (call.op = "as_cannonical_data")
    /\ _deposits' = <<>>
    /\ UNCHANGED <<_opened_positions, _closed_positions, _last_id>>

as_cannonical_data ==
    /\ call' = [op |-> "as_cannonical_data", args |-> <<>>]
    /\ raised' = NoException
    /\ ret' = Some(CanonicalData)
    /\ again' = (call.op = "as_cannonical_data")
    /\ UNCHANGED ledger

Next ==
    \/ \E d \in Deposits : deposit(d.time, d.amount) /\ UNCHANGED readers
    \/ \E trade \in Trade : open_position(trade) /\ UNCHANGED readers
    \/ \E trade \in Trade : close_position(trade) /\ UNCHANGED readers
    \/ as_cannonical_data /\ UNCHANGED readers

Spec == Init /\ [][Next]_vars

\* the ledger with its completeness test called between the operations
NextQuery ==
    \/ \E d \in Deposits : deposit(d.time, d.amount) /\ UNCHANGED readers
    \/ \E trade \in Trade : open_position(trade) /\ UNCHANGED readers
    \/ \E trade \in Trade : close_position(trade) /\ UNCHANGED readers
    \/ call_has_open_positions /\ UNCHANGED readers

Query == Init /\ [][NextQuery]_vars

-----------------------------------------------------------------------------
(* The ledger driven with the deals of the end-to-end scenario: prices are  *)
(* in units of 0.0001, so 1.1000 is 11000 and 1.1050 is 11050.             *)

\* deposit(t0, 10000)
ScenarioDeposit == [time |-> 0, amount |-> 10000]

\* Trade(t1, "EURUSD", PosType.BUY, 1.0, 1.1000), the other fields defaulted
ScenarioOpen ==
    [time |-> 1, symbol |-> "EURUSD", pos_type |-> BUY, volume |-> 1,
     price |-> 11000, comment |-> None, swap |-> 0, commission |-> 0,
     profit |-> 0]

\* Trade(t2, "EURUSD", PosType.BUY, 1.0, 1.1050, profit=500)
ScenarioClose ==
    [time |-> 2, symbol |-> "EURUSD", pos_type |-> BUY, volume |-> 1,
     price |-> 11050, comment |-> None, swap |-> 0, commission |-> 0,
     profit |-> 500]

\* the same two deals carrying a comment
GridOpen == [ScenarioOpen EXCEPT !.comment = Some("grid-1")]
TpClose == [ScenarioClose EXCEPT !.comment = Some("tp-hit")]

ScenarioTrade == {ScenarioOpen, ScenarioClose, GridOpen, TpClose}

NextScenario ==
    \/ deposit(ScenarioDeposit.time, ScenarioDeposit.amount) /\ UNCHANGED readers
    \/ \E trade \in ScenarioTrade : open_position(trade) /\ UNCHANGED readers
    \/ \E trade \in ScenarioTrade : close_position(trade) /\ UNCHANGED readers
    \/ as_cannonical_data /\ UNCHANGED readers

Scenario == Init /\ [][NextScenario]_vars

-----------------------------------------------------------------------------
(* The MT5 reader (class Mt5Reader of data/mt5_reader.py): one run of       *)
(* get_cannoncial_data on the reader's own ledger.  The loop over the deals *)
(* of the report is one step per deal; the report is any sequence of the    *)
(* deals below.  A run is over once a step raised or the table is returned. *)

\* a row of the report: deal.Type, deal.Direction, deal.Profit and the rest
Mt5Deal(type, direction, profit) ==
    [Type |-> type, Direction |-> direction, Time |-> 1, Symbol |-> "EURUSD",
     Volume |-> 1, Price |-> 11, Comment |-> None, Swap |-> 0,
     Commission |-> 0, Profit |-> profit]

\* a balance deal, a buy that opens, the sell that closes it, a sell that
\* opens, the buy that closes it, a buy and its closing sell of another
\* volume, a deal that neither opens nor closes, a deal of no known type
Mt5Deals ==
    {Mt5Deal("balance", NaN, 100),
     Mt5Deal("buy", "in", 0),
     Mt5Deal("sell", "out", 5),
     Mt5Deal("sell", "in", 0),
     Mt5Deal("buy", "out", 5),
     [Mt5Deal("buy", "in", 0) EXCEPT !.Volume = 2],
     [Mt5Deal("sell", "out", 5) EXCEPT !.Volume = 2],
     Mt5Deal("buy", "in/out", 0),
     Mt5Deal("credit", "in", 0)}

InvalidDealType(deal) == ValueError(<<"Invalid deal type: ", deal.Type>>)

\* _get_pos_type(deal), for a deal of type buy or sell
_get_pos_type(deal) == IF deal.Type = "buy" THEN BUY ELSE SELL

\* the arguments _process_deal passes on to the ledger
Mt5Trade(deal, pos_type) ==
    [time |-> deal.Time, symbol |-> deal.Symbol, pos_type |-> pos_type,
     volume |-> deal.Volume, price |-> deal.Price, comment |-> deal.Comment,
     swap |-> deal.Swap, commission |-> deal.Commission,
     profit |-> deal.Profit]

\* the run goes on: nothing was raised and nothing returned yet
Running == raised = NoException /\ ret = None

\* one pass of the loop of get_cannoncial_data: self._process_deal(row)
_process_deal(deal) ==
    /\ Running
    /\ IF deal.Type = "balance"
       THEN deposit(deal.Time, deal.Profit)
       ELSE IF deal.Direction \in {"in", "out"} /\ deal.Type \notin {"buy", "sell"}
       THEN /\ call' = [op |-> "_get_pos_type", args |-> deal]
            /\ raised' = InvalidDealType(deal)
            /\ ret' = None
            /\ again' = FALSE
            /\ UNCHANGED ledger
       ELSE IF deal.Direction = "in"
       THEN open_position(Mt5Trade(deal, _get_pos_type(deal)))
       ELSE IF deal.Direction = "out"
       THEN close_position(Mt5Trade(deal, inverse(_get_pos_type(deal))))
       ELSE /\ call' = [op |-> "_process_deal", args |-> deal]
            /\ raised' = NoException
            /\ ret' = None
            /\ again' = FALSE
            /\ UNCHANGED ledger

\* as_cannonical_data of the ledger in data/mt5_reader.py: the same table,
\* its index left as sort_values left it
Mt5CanonicalData ==
    LET result == ConcatSorted
        r1 == SetColumn(result, "Net profit", NetProfit(result))
        r2 == SetColumn(r1, "T/P", Broadcast(r1, 0))
        r3 == SetColumn(r2, "S/L", Broadcast(r2, 0))
        r4 == SetColumn(r3, "Magic number", Broadcast(r3, 0))
    IN  reindex(r4, CANONICAL_COL_ORDER, CanonicalPlaces)

\* the end of a run that returns the table without asking the ledger
get_cannoncial_data_unchecked ==
    /\ Running
    /\ call' = [op |-> "get_cannoncial_data", args |-> <<>>]
    /\ raised' = NoException
    /\ ret' = Some(Mt5CanonicalData)
    /\ again' = FALSE
    /\ UNCHANGED ledger

\* the end of get_cannoncial_data, the deals of the report exhausted
get_cannoncial_data ==
    /\ Running
    /\ call' = [op |-> "get_cannoncial_data", args |-> <<>>]
    /\ IF has_open_positions
       THEN /\ raised' = ValueError(<<"Some positions are still open">>)
            /\ ret' = None
       ELSE /\ raised' = NoException
            /\ ret' = Some(Mt5CanonicalData)
    /\ again' = FALSE
    /\ UNCHANGED ledger

NextReader ==
    \/ \E deal \in Mt5Deals : _process_deal(deal) /\ UNCHANGED readers
    \/ get_cannoncial_data /\ UNCHANGED readers

Reader == Init /\ [][NextReader]_vars

-----------------------------------------------------------------------------
(* Properties.  A step is told by the call it records: call' names the     *)
(* method the step ran and its arguments, raised' what it raised.          *)

Key(pos) == <<pos.symbol, pos.type, pos.volume>>
DealKey(trade) == <<trade.symbol, trade.pos_type, trade.volume>>

Opened == Range(_opened_positions)
Closed == Range(_closed_positions)
Tickets(list) == {e.id : e \in Range(list)}

Closes == call'.op = "close_position"
ClosesOk == Closes /\ raised' = NoException
JustClosed == call.op = "close_position" /\ raised = NoException
Exported == call.op = "as_cannonical_data" /\ ret # None

\* C1: a successful close_position moves, from the open list to the end of
\* the closed list, the open position of lowest ticket among those whose
\* symbol, side and volume equal the deal's (so of two same-key positions at
\* tickets N and N+1 the first close takes N, the next one N+1).
C1_FifoSelection ==
    [][ClosesOk =>
        LET same == {p \in Opened : Key(p) = DealKey(call'.args)}
            moved == Last(_closed_positions')
        IN  /\ same # {}
            /\ Len(_closed_positions') = Len(_closed_positions) + 1
            /\ moved.id \in Tickets(_opened_positions)
            /\ moved.id \in {p.id : p \in same}
            /\ \A p \in same : moved.id <= p.id
            /\ Tickets(_opened_positions') =
                   Tickets(_opened_positions) \ {moved.id}]_vars

\* C1 witness: the close took ticket N and left the same-key ticket N+1 open
C1_Witness ==
    /\ JustClosed
    /\ \E p \in Opened :
          /\ Key(p) = Key(Last(_closed_positions))
          /\ p.id = Last(_closed_positions).id + 1

\* C2: a close_position whose (symbol, side, volume) no open position has
\* raises the 'No open position' error naming that symbol, side and volume,
\* and leaves deposits, open list, closed list and counter as they were.
C2_UnmatchedCloseRaisesUnchanged ==
    [][(Closes /\ ~ \E p \in Opened : Key(p) = DealKey(call'.args)) =>
        /\ raised'.exc = "ValueError"
        /\ raised'.msg = <<"No open position for symbol: ", call'.args.symbol,
                           " and type: ", call'.args.pos_type,
                           " and volume: ", call'.args.volume>>
        /\ UNCHANGED ledger]_vars

\* C2 witness: the close was refused although a position of that key was
\* closed before and a position differing in volume alone is open
C2_Witness ==
    /\ call.op = "close_position"
    /\ raised.exc = "ValueError"
    /\ \E p \in Closed : Key(p) = DealKey(call.args)
    /\ \E p \in Opened :
          /\ p.symbol = call.args.symbol
          /\ p.type = call.args.pos_type
          /\ p.volume # call.args.volume

C4_ExactKeyMatching ==
    [][Closes =>
        (raised' = NoException <=>
            \E p \in Opened :
                /\ p.symbol = call'.args.symbol
                /\ p.type = call'.args.pos_type
                /\ p.volume = call'.args.volume)]_vars

\* C4 witness: a close of volume 2 was refused while two positions of that
\* symbol and side, of volume 1 each, are open
C4_Witness ==
    /\ call.op = "close_position"
    /\ raised.exc = "ValueError"
    /\ call.args.volume = 2
    /\ \E p, q \in Opened :
          /\ p.id # q.id
          /\ p.symbol = call.args.symbol /\ q.symbol = call.args.symbol
          /\ p.type = call.args.pos_type /\ q.type = call.args.pos_type
          /\ p.volume + q.volume = call.args.volume

\* C5: every deposit and every open_position takes ticket counter + 1 and
\* leaves the counter there, above every ticket given before, whatever the
\* timestamps; close_position neither moves the counter nor changes a ticket.
C5_TicketsIncrease ==
    [][/\ call'.op \in {"deposit", "open_position"} =>
            LET new == IF call'.op = "deposit" THEN Last(_deposits')
                       ELSE Last(_opened_positions')
                old == Tickets(_deposits) \cup Tickets(_opened_positions)
                          \cup Tickets(_closed_positions)
            IN  /\ _last_id' = _last_id + 1
                /\ new.id = _last_id'
                /\ \A t \in old : t < new.id
       /\ Closes =>
            /\ _last_id' = _last_id
            /\ Tickets(_opened_positions') \cup Tickets(_closed_positions')
                   = Tickets(_opened_positions) \cup Tickets(_closed_positions)
            /\ Tickets(_deposits') = Tickets(_deposits)]_vars

\* C5 witness: a deposit made after an open_position, with an earlier
\* timestamp and the larger ticket
C5_Witness ==
    /\ call.op = "deposit"
    /\ \E p \in Opened \cup Closed :
          /\ Last(_deposits).id > p.id
          /\ Last(_deposits).time < p.open_time

Rows == ret[1].rows
\* the cell of row i in the column labelled c
Cell(i, c) == Rows[i][IndexOf(ret[1].columns, c)]

\* C6: the rows of the table as_cannonical_data returns are in strictly
\* ascending order of Ticket, deposit rows and closed-position rows mixed by
\* ticket, whatever the order the positions were closed in.
C6_RowsAscendByTicket ==
    ret # None =>
        \A i, j \in 1..Len(Rows) :
            i < j => Cell(i, "Ticket") < Cell(j, "Ticket")

\* C6 witness: a deposit row between two closed-position rows, the higher
\* ticket of the two having been closed first
C6_Witness ==
    /\ Exported
    /\ Len(Rows) = 3
    /\ Cell(1, "Type") = "Closed position"
    /\ Cell(2, "Type") = "Deposit"
    /\ Cell(3, "Type") = "Closed position"
    /\ _closed_positions[1].id > _closed_positions[2].id

\* C7: the position a successful close_position appends to the closed list
\* has the ticket, symbol, side, volume, open time and open price of the
\* position the call took out of the open list.
C7_ClosedKeepsOpenFields ==
    [][ClosesOk =>
        \E p \in Opened :
            LET q == Last(_closed_positions') IN
            /\ p.id \notin Tickets(_opened_positions')
            /\ q.id = p.id
            /\ q.symbol = p.symbol
            /\ q.type = p.type
            /\ q.volume = p.volume
            /\ q.open_time = p.open_time
            /\ q.open_price = p.open_price]_vars

\* C7 witness: a position closed after a deposit and another open took the
\* next tickets, by a deal whose time and price differ from the opening ones
C7_Witness ==
    /\ JustClosed
    /\ LET q == Last(_closed_positions) IN
       /\ \E d \in Range(_deposits) : d.id > q.id
       /\ \E p \in Opened : p.id > q.id
       /\ q.close_time # Some(q.open_time)
       /\ q.close_price # Some(q.open_price)

\* C8: a position enters the open list with the opening deal's swap,
\* commission and profit, keeps them while it is open, and is closed with
\* each of the three equal to that value plus the closing deal's.
C8_AmountsAccumulate ==
    [][/\ call'.op = "open_position" =>
            LET new == Last(_opened_positions') IN
            /\ new.swap = call'.args.swap
            /\ new.commission = call'.args.commission
            /\ new.profit = call'.args.profit
       /\ \A q \in Range(_opened_positions') :
            q.id <= _last_id => q \in Opened
       /\ ClosesOk =>
            \E p \in Opened :
                LET q == Last(_closed_positions') IN
                /\ q.id = p.id
                /\ q.swap = p.swap + call'.args.swap
                /\ q.commission = p.commission + call'.args.commission
                /\ q.profit = p.profit + call'.args.profit]_vars

\* C8 witness: a close with a negative swap and commission and a non-zero
\* profit, of a position whose opening deal gave non-zero values as well
C8_Witness ==
    /\ JustClosed
    /\ LET q == Last(_closed_positions) IN
       /\ call.args.swap < 0 /\ q.swap < call.args.swap
       /\ call.args.commission < 0 /\ q.commission < call.args.commission
       /\ call.args.profit # 0 /\ q.profit # call.args.profit

\* C9: in every row of the exported table Net profit is Profit + Swap +
\* Commission; in a deposit row that is the deposit's amount, in a
\* closed-position row the sum of the position's profit, swap and commission.
C9_NetProfit ==
    ret # None =>
        \A i \in 1..Len(Rows) :
            /\ Cell(i, "Net profit") =
                   Cell(i, "Profit") + Cell(i, "Swap") + Cell(i, "Commission")
            /\ Cell(i, "Type") = "Deposit" =>
                   \E d \in Range(_deposits) :
                       /\ d.id = Cell(i, "Ticket")
                       /\ Cell(i, "Net profit") = d.amount
            /\ Cell(i, "Type") = "Closed position" =>
                   \E p \in Closed :
                       /\ p.id = Cell(i, "Ticket")
                       /\ Cell(i, "Net profit") =
                              p.profit + p.swap + p.commission

\* C9 witness: a table with a deposit row and a closed-position row whose
\* profit, swap and commission are all non-zero
C9_Witness ==
    /\ Exported
    /\ \E i \in 1..Len(Rows) : Cell(i, "Type") = "Deposit"
    /\ \E i \in 1..Len(Rows) :
          /\ Cell(i, "Type") = "Closed position"
          /\ Cell(i, "Profit") # 0
          /\ Cell(i, "Swap") # 0
          /\ Cell(i, "Commission") # 0

\* C10: as_cannonical_data leaves deposits, open list, closed list and
\* counter as they were, and a call that follows another with no operation
\* in between returns the same table.
C10_ExportReadOnly ==
    [][call'.op = "as_cannonical_data" =>
        /\ UNCHANGED ledger
        /\ call.op = "as_cannonical_data" => ret' = ret]_vars

\* C10 witness: the second of two consecutive exports of a fully closed
\* ledger with a deposit and a closed position
C10_Witness ==
    /\ Exported
    /\ again
    /\ ~has_open_positions
    /\ _deposits # <<>>
    /\ _closed_positions # <<>>

\* the rows of the exported table whose Ticket is t
RowsOf(t) == {i \in 1..Len(Rows) : Cell(i, "Ticket") = t}

\* C11: the exported table has one row per deposit and one row per closed
\* position and no other row: as many rows as deposits and closed positions
\* together, and no row for a position that is still in the open list.
C11_OneRowPerEntry ==
    ret # None =>
        /\ Len(Rows) = Len(_deposits) + Len(_closed_positions)
        /\ \A d \in Range(_deposits) :
              /\ Cardinality(RowsOf(d.id)) = 1
              /\ \A i \in RowsOf(d.id) : Cell(i, "Type") = "Deposit"
        /\ \A p \in Closed :
              /\ Cardinality(RowsOf(p.id)) = 1
              /\ \A i \in RowsOf(p.id) : Cell(i, "Type") = "Closed position"
        /\ \A p \in Opened : RowsOf(p.id) = {}

\* C11 witness: an export of a ledger holding a deposit, a closed position
\* and an open position returned two rows
C11_Witness ==
    /\ Exported
    /\ Len(_deposits) = 1
    /\ Len(_closed_positions) = 1
    /\ Len(_opened_positions) = 1
    /\ Len(Rows) = 2

\* C12 as the specification states it: a deposit row has Type "Deposit", the
\* deposit's ticket, the signed amount in Profit, and Symbol, Lots, Open price
\* and Close price zeroed, Swap and Commission 0.
C12_DepositRowZeroed ==
    ret # None =>
        \A d \in Range(_deposits) :
            \A i \in RowsOf(d.id) :
                /\ Cell(i, "Type") = "Deposit"
                /\ Cell(i, "Profit") = d.amount
                /\ Cell(i, "Lots") = 0
                /\ Cell(i, "Open price") = 0
                /\ Cell(i, "Close price") = 0
                /\ Cell(i, "Swap") = 0
                /\ Cell(i, "Commission") = 0
                /\ Cell(i, "Symbol") # NaN
                /\ Cell(i, "Symbol") = 0

\* C12 amended: a deposit row has Type "Deposit", the deposit's ticket, the
\* signed amount in Profit, 0 in Lots, Open price, Close price, Swap and
\* Commission, and no value (NaN) in Symbol, which the deposits frame lacks.
C12_DepositRow ==
    ret # None =>
        /\ \A d \in Range(_deposits) : RowsOf(d.id) # {}
        /\ \A d \in Range(_deposits) :
              \A i \in RowsOf(d.id) :
                  /\ Cell(i, "Type") = "Deposit"
                  /\ Cell(i, "Profit") = d.amount
                  /\ Cell(i, "Lots") = 0
                  /\ Cell(i, "Open price") = 0
                  /\ Cell(i, "Close price") = 0
                  /\ Cell(i, "Swap") = 0
                  /\ Cell(i, "Commission") = 0
                  /\ Cell(i, "Symbol") = NaN

\* C12 witness: a table with the row of a deposit and the row of a withdrawal
C12_Witness ==
    /\ Exported
    /\ \E i, j \in 1..Len(Rows) :
          /\ Cell(i, "Type") = "Deposit" /\ Cell(i, "Profit") > 0
          /\ Cell(j, "Type") = "Deposit" /\ Cell(j, "Profit") < 0

\* C13: a closed position is exported as a row of Type "Closed position"
\* whose Ticket, Symbol, Lots, Buy/sell, Open price, Close price, Open time,
\* Close time, Profit, Swap, Commission and Order comment are the position's
\* ticket, symbol, volume, side, open price, close price, open time, close
\* time, profit, swap, commission and comment.
C13_ClosedPositionRow ==
    ret # None =>
        /\ \A p \in Closed : RowsOf(p.id) # {}
        /\ \A p \in Closed :
              \A i \in RowsOf(p.id) :
                  /\ Cell(i, "Type") = "Closed position"
                  /\ Cell(i, "Symbol") = p.symbol
                  /\ Cell(i, "Lots") = p.volume
                  /\ Cell(i, "Buy/sell") = p.type
                  /\ Cell(i, "Buy/sell") \in {"Buy", "Sell"}
                  /\ Cell(i, "Open price") = p.open_price
                  /\ Some(Cell(i, "Close price")) = p.close_price
                  /\ Cell(i, "Open time") = p.open_time
                  /\ Some(Cell(i, "Close time")) = p.close_time
                  /\ Cell(i, "Profit") = p.profit
                  /\ Cell(i, "Swap") = p.swap
                  /\ Cell(i, "Commission") = p.commission
                  /\ Cell(i, "Order comment") = p.comment

\* C13 witness: the row of a position whose open and close price, open and
\* close time, and profit, swap and commission are all different values
C13_Witness ==
    /\ Exported
    /\ \E i \in 1..Len(Rows) :
          /\ Cell(i, "Type") = "Closed position"
          /\ Cell(i, "Open price") # Cell(i, "Close price")
          /\ Cell(i, "Open time") # Cell(i, "Close time")
          /\ Cardinality({Cell(i, "Profit"), Cell(i, "Swap"),
                          Cell(i, "Commission")}) = 3
          /\ Cell(i, "Order comment") # ""

\* the ledger of the scenario: as constructed, after the deposit, after the
\* opening deal and after the closing deal
Fresh ==
    /\ _last_id = 0
    /\ _deposits = <<>>
    /\ _opened_positions = <<>>
    /\ _closed_positions = <<>>

AfterDeposit ==
    /\ _last_id = 1
    /\ _deposits = <<[id |-> 1, time |-> 0, amount |-> 10000]>>
    /\ _opened_positions = <<>>
    /\ _closed_positions = <<>>

AfterOpen ==
    /\ _last_id = 2
    /\ _deposits = <<[id |-> 1, time |-> 0, amount |-> 10000]>>
    /\ _closed_positions = <<>>
    /\ Len(_opened_positions) = 1
    /\ LET p == _opened_positions[1] IN
       /\ p.id = 2 /\ p.symbol = "EURUSD" /\ p.type = "Buy" /\ p.volume = 1
       /\ p.open_time = 1 /\ p.open_price = 11000 /\ p.comment = ""
       /\ p.swap = 0 /\ p.commission = 0 /\ p.profit = 0

AfterClose ==
    /\ _last_id = 2
    /\ _deposits = <<[id |-> 1, time |-> 0, amount |-> 10000]>>
    /\ _opened_positions = <<>>
    /\ Len(_closed_positions) = 1
    /\ LET p == _closed_positions[1] IN
       /\ p.id = 2 /\ p.symbol = "EURUSD" /\ p.type = "Buy" /\ p.volume = 1
       /\ p.open_time = 1 /\ p.open_price = 11000 /\ p.comment = ""
       /\ p.close_time = <<2>> /\ p.close_price = <<11050>>
       /\ p.swap = 0 /\ p.commission = 0 /\ p.profit = 500

\* the two rows the scenario ends with
ScenarioRows ==
    /\ raised = NoException
    /\ ret # None
    /\ Len(Rows) = 2
    /\ Cell(1, "Ticket") = 1
    /\ Cell(1, "Type") = "Deposit"
    /\ Cell(1, "Profit") = 10000
    /\ Cell(1, "Net profit") = 10000
    /\ Cell(2, "Ticket") = 2
    /\ Cell(2, "Type") = "Closed position"
    /\ Cell(2, "Symbol") = "EURUSD"
    /\ Cell(2, "Lots") = 1
    /\ Cell(2, "Open price") = 11000
    /\ Cell(2, "Close price") = 11050
    /\ Cell(2, "Profit") = 500
    /\ Cell(2, "Net profit") = 500

\* C14: on a fresh ledger deposit(t0, 10000), open_position(t1, EURUSD, Buy,
\* 1.0, 1.1000), close_position(t2, EURUSD, Buy, 1.0, 1.1050, profit=500) and
\* the export give two rows: ticket 1 (Deposit, Profit 10000, Net profit
\* 10000), then ticket 2 (Closed position, EURUSD, Lots 1.0, Open price
\* 1.1000, Close price 1.1050, Profit 500, Net profit 500).  Each call of the
\* scenario takes the ledger from the state the call before left to the next.
C14_Scenario ==
    [][/\ (/\ Fresh
           /\ call'.op = "deposit"
           /\ call'.args = [time |-> 0, amount |-> 10000])
              => AfterDeposit'
       /\ (/\ AfterDeposit
           /\ call'.op = "open_position"
           /\ call'.args = ScenarioOpen)
              => AfterOpen'
       /\ (/\ AfterOpen
           /\ call'.op = "close_position"
           /\ call'.args = ScenarioClose)
              => (raised' = NoException /\ AfterClose')
       /\ (/\ AfterClose
           /\ call'.op = "as_cannonical_data")
              => ScenarioRows']_vars

\* C14 witness: the export at the end of the scenario, two rows returned
C14_Witness ==
    /\ Exported
    /\ AfterClose
    /\ Len(Rows) = 2

\* C15: a closing deal with comment c leaves the closed position with its
\* opening comment, a space and c in square brackets ("grid-1" closed with
\* "tp-hit" gives "grid-1 [tp-hit]"); a closing deal without a comment leaves
\* the comment as it was set at open; an opening deal without a comment sets
\* the empty comment, one with a comment sets that comment.
C15_CommentConcatenation ==
    [][/\ call'.op = "open_position" =>
            Last(_opened_positions').comment =
                IF call'.args.comment = None THEN ""
                ELSE call'.args.comment[1]
       /\ ClosesOk =>
            \E p \in Opened :
                LET q == Last(_closed_positions') IN
                /\ q.id = p.id
                /\ call'.args.comment = None => q.comment = p.comment
                /\ call'.args.comment # None =>
                       q.comment = p.comment \o " [" \o call'.args.comment[1] \o "]"
                /\ (p.comment = "grid-1" /\ call'.args.comment = <<"tp-hit">>)
                       => q.comment = "grid-1 [tp-hit]"]_vars

\* C15 witness: a position opened with "grid-1" and closed with "tp-hit"
C15_Witness ==
    /\ JustClosed
    /\ call.args.comment = <<"tp-hit">>
    /\ Last(_closed_positions).comment = "grid-1 [tp-hit]"

IsPrefix(a, b) == Len(a) <= Len(b) /\ SubSeq(b, 1, Len(a)) = a

\* C16: a position is created open; it is closed at most once, by the step
\* that moves it from the open list to the end of the closed list; no deposit,
\* open_position, close_position or export changes, removes, reorders or
\* matches again an entry of the closed list: every step leaves the closed
\* list and the deposit list as a prefix of what they become.
C16_Lifecycle ==
    [][/\ IsPrefix(_closed_positions, _closed_positions')
       /\ IsPrefix(_deposits, _deposits')
       /\ Len(_closed_positions') <= Len(_closed_positions) + 1
       /\ call'.op = "open_position" =>
            LET new == Last(_opened_positions') IN
            /\ new.close_time = None
            /\ new.close_price = None
            /\ new.id \notin Tickets(_opened_positions)
            /\ new.id \notin Tickets(_closed_positions')
       /\ Len(_closed_positions') = Len(_closed_positions) + 1 =>
            LET q == Last(_closed_positions') IN
            /\ ClosesOk
            /\ q.close_time # None
            /\ q.id \in Tickets(_opened_positions)
            /\ q.id \notin Tickets(_opened_positions')
            /\ q.id \notin Tickets(_closed_positions)
       /\ Tickets(_opened_positions') \cap Tickets(_closed_positions') = {}
       /\ \A p \in Range(_opened_positions') : p.close_time = None
       /\ \A i, j \in 1..Len(_closed_positions') :
            i # j => _closed_positions'[i].id # _closed_positions'[j].id]_vars

\* C16 witness: with two positions of one key closed and none open, a further
\* close of that key was refused
C16_Witness ==
    /\ call.op = "close_position"
    /\ raised.exc = "ValueError"
    /\ _opened_positions = <<>>
    /\ Len(_closed_positions) = 2
    /\ \A p \in Closed : Key(p) = DealKey(call.args)

\* C17: the closed positions of one (symbol, side, volume) key are in the
\* closed list in ascending order of ticket, and each has a lower ticket than
\* every position of that key still in the open list.
C17_SameKeyCloseOrder ==
    /\ \A i, j \in 1..Len(_closed_positions) :
          (i < j /\ Key(_closed_positions[i]) = Key(_closed_positions[j]))
              => _closed_positions[i].id < _closed_positions[j].id
    /\ \A p \in Closed : \A q \in Opened :
          Key(p) = Key(q) => p.id < q.id

\* C17 witness: two closed positions and an open one, all of one key
C17_Witness ==
    /\ Len(_closed_positions) = 2
    /\ Len(_opened_positions) = 1
    /\ \A p \in Closed : Key(p) = Key(_opened_positions[1])

\* C18: a run of the reader hands out a table only at its end and only if
\* the open list is then empty; with a position still open the end of the
\* run raises 'Some positions are still open' and returns nothing; a close
\* that matches no open position raises, and a run in which a step raised
\* takes no further step, so it never returns a table.
C18_NoPartialSuccess ==
    [][/\ Running
       /\ call'.op = "get_cannoncial_data" =>
            /\ UNCHANGED ledger
            /\ IF _opened_positions = <<>>
               THEN raised' = NoException /\ ret' # None
               ELSE /\ raised'.exc = "ValueError"
                    /\ raised'.msg = <<"Some positions are still open">>
                    /\ ret' = None
       /\ ret' # None =>
            /\ call'.op = "get_cannoncial_data"
            /\ _opened_positions' = <<>>
            /\ raised' = NoException
       /\ (Closes /\ ~ \E p \in Opened : Key(p) = DealKey(call'.args)) =>
            /\ raised'.exc = "ValueError"
            /\ ret' = None]_vars

\* C18 witness: the end of a run refused a ledger with a deposit, a closed
\* position and a position still open
C18_Witness ==
    /\ call.op = "get_cannoncial_data"
    /\ raised.exc = "ValueError"
    /\ ret = None
    /\ _deposits # <<>>
    /\ _closed_positions # <<>>
    /\ _opened_positions # <<>>

\* the positions created so far, open or closed
EverOpened == Tickets(_opened_positions) \cup Tickets(_closed_positions)

\* C19: has_open_positions() returns true exactly when more open_position
\* calls than successful close_position calls were made, and changes nothing.
\* Each open_position creates one position, each successful close_position
\* adds one entry to the closed list, no other call does either: the answer
\* is whether more positions were created than closed.
C19_HasOpenPositions ==
    [][/\ call'.op = "open_position" =>
            /\ Cardinality(EverOpened') = Cardinality(EverOpened) + 1
            /\ Len(_closed_positions') = Len(_closed_positions)
       /\ ClosesOk =>
            /\ EverOpened' = EverOpened
            /\ Len(_closed_positions') = Len(_closed_positions) + 1
       /\ (call'.op \notin {"open_position", "close_position"}
             \/ (Closes /\ raised' # NoException)) =>
            /\ EverOpened' = EverOpened
            /\ Len(_closed_positions') = Len(_closed_positions)
       /\ call'.op = "has_open_positions" =>
            /\ UNCHANGED ledger
            /\ raised' = NoException
            /\ ret' = Some(Cardinality(EverOpened) > Len(_closed_positions))]_vars

\* C19 witness: the test answered no on a ledger whose positions, two of
\* them, are all closed
C19_Witness ==
    /\ call.op = "has_open_positions"
    /\ ret = Some(FALSE)
    /\ Len(_closed_positions) = 2
    /\ _deposits # <<>>

\* C20: the exported table has the 17 canonical columns, in the order Type,
\* Ticket, Symbol, Lots, Buy/sell, Open price, Close price, Open time, Close
\* time, Profit, Swap, Commission, Net profit, T/P, S/L, Magic number, Order
\* comment; every row, of a deposit or of a closed position, has one cell per
\* column, and 0 in T/P, S/L and Magic number.
C20_CanonicalColumns ==
    ret # None =>
        /\ ret[1].columns =
              << "Type", "Ticket", "Symbol", "Lots", "Buy/sell",
                 "Open price", "Close price", "Open time", "Close time",
                 "Profit", "Swap", "Commission", "Net profit", "T/P", "S/L",
                 "Magic number", "Order comment" >>
        /\ \A i \in 1..Len(Rows) :
              /\ Len(Rows[i]) = 17
              /\ Rows[i][1] \in {"Deposit", "Closed position"}
              /\ Rows[i][14] = 0 /\ Cell(i, "T/P") = 0
              /\ Rows[i][15] = 0 /\ Cell(i, "S/L") = 0
              /\ Rows[i][16] = 0 /\ Cell(i, "Magic number") = 0

\* C20 witness: a table with the rows of two deposits and a closed position
C20_Witness ==
    /\ Exported
    /\ Len(_deposits) = 2
    /\ Len(_closed_positions) = 1
    /\ Len(Rows) = 3

-----------------------------------------------------------------------------
(* Frame conditions of the three ledger operations *)

\* the list s without its i-th element, the others in their order
Without(s, i) == SubSeq(s, 1, i-1) \o SubSeq(s, i+1, Len(s))

\* C21: deposit raises nothing, raises the counter by one, appends one deposit
\* and leaves the open and the closed list alone; open_position raises
\* nothing, raises the counter by one, appends one position at the end of the
\* open list and leaves the deposits, the closed list and the open positions
\* it found alone; a close_position that succeeds removes exactly one position
\* from the open list, the others keeping their order, appends that position
\* to the closed list and leaves the deposits and the counter alone.
C21_FrameConditions ==
    [][/\ call'.op = "deposit" =>
            /\ raised' = NoException
            /\ _last_id' = _last_id + 1
            /\ _deposits' = Append(_deposits, Last(_deposits'))
            /\ Last(_deposits') =
                 Deposit(_last_id', call'.args.time, call'.args.amount)
            /\ UNCHANGED <<_opened_positions, _closed_positions>>
       /\ call'.op = "open_position" =>
            /\ raised' = NoException
            /\ _last_id' = _last_id + 1
            /\ _opened_positions' =
                 Append(_opened_positions, Last(_opened_positions'))
            /\ Last(_opened_positions').id = _last_id'
            /\ Key(Last(_opened_positions')) = DealKey(call'.args)
            /\ UNCHANGED <<_deposits, _closed_positions>>
       /\ ClosesOk =>
            /\ \E i \in 1..Len(_opened_positions) :
                 /\ _opened_positions' = Without(_opened_positions, i)
                 /\ _closed_positions' =
                      Append(_closed_positions, Last(_closed_positions'))
                 /\ Last(_closed_positions').id = _opened_positions[i].id
            /\ UNCHANGED <<_deposits, _last_id>>]_vars

\* C21 witness: of three open positions the middle one was closed, and the
\* first and the third are the open list, in that order
C21_Witness ==
    /\ JustClosed
    /\ Len(_opened_positions) = 2
    /\ _opened_positions[1].id = 1
    /\ _opened_positions[2].id = 3
    /\ Last(_closed_positions).id = 2

-----------------------------------------------------------------------------
(* The ticket partition *)

\* the tickets of a list, each held by one entry of it
Distinct(list) == Cardinality(Tickets(list)) = Len(list)

Ascending(list) == \A i \in 1..(Len(list) - 1) : list[i].id < list[i+1].id

\* C22: the tickets of the deposits, the open and the closed positions are
\* pairwise distinct and are together exactly 1.._last_id, so that _last_id is
\* the sum of the three lengths; the open list is in ascending ticket order;
\* and the table exported from a ledger with no open position has the Ticket
\* column 1, 2, ..., _last_id.
C22_TicketPartition ==
    /\ Distinct(_deposits) /\ Distinct(_opened_positions)
    /\ Distinct(_closed_positions)
    /\ Tickets(_deposits) \cap Tickets(_opened_positions) = {}
    /\ Tickets(_deposits) \cap Tickets(_closed_positions) = {}
    /\ Tickets(_opened_positions) \cap Tickets(_closed_positions) = {}
    /\ Tickets(_deposits) \cup Tickets(_opened_positions)
         \cup Tickets(_closed_positions) = 1.._last_id
    /\ _last_id = Len(_deposits) + Len(_opened_positions)
                    + Len(_closed_positions)
    /\ Ascending(_opened_positions)
    /\ (Exported /\ _opened_positions = <<>>) =>
         /\ Len(Rows) = _last_id
         /\ \A i \in 1.._last_id : Cell(i, "Ticket") = i

\* C22 witness: a table of three rows exported from a ledger of deposits and
\* closed positions, the later position closed first
C22_Witness ==
    /\ Exported
    /\ _opened_positions = <<>>
    /\ _last_id = MaxTickets
    /\ _deposits # <<>>
    /\ Len(_closed_positions) >= 2
    /\ ~Ascending(_closed_positions)

-----------------------------------------------------------------------------
(* Open positions counted by key *)

AllKeys == Symbols \X PosType \X Volumes

\* how many open positions have the key k
OpenCount(k) == Cardinality({p \in Opened : Key(p) = k})

\* C23: for every key, each open_position of that key adds one to the number
\* of open positions of the key, each close_position of that key that
\* succeeds takes one off, and nothing else changes it: the number is the
\* opens less the successful closes.  So a close_position raises only when
\* its key has had as many closes as opens, and when every key has had as
\* many closes as opens the open list is empty and the completeness check of
\* get_cannoncial_data passes.
C23_OpenCountBalance ==
    [][/\ \A k \in AllKeys :
            OpenCount(k)' = OpenCount(k)
              + (IF call'.op = "open_position" /\ DealKey(call'.args) = k
                 THEN 1 ELSE 0)
              - (IF ClosesOk /\ DealKey(call'.args) = k THEN 1 ELSE 0)
       /\ Closes =>
            (raised' = NoException <=> OpenCount(DealKey(call'.args)) > 0)
       /\ (\A k \in AllKeys : OpenCount(k)' = 0) => _opened_positions' = <<>>
       /\ (call'.op = "get_cannoncial_data"
             /\ \A k \in AllKeys : OpenCount(k) = 0) =>
            /\ raised' = NoException
            /\ ret' # None]_vars

\* C23 witness: the table is returned after a stream that opened and closed
\* one position of each of two keys
C23_Witness ==
    /\ call.op = "get_cannoncial_data"
    /\ ret # None
    /\ Len(_closed_positions) = 2
    /\ Key(_closed_positions[1]) # Key(_closed_positions[2])

-----------------------------------------------------------------------------
(* The classification of MT5 deals *)

-----------------------------------------------------------------------------
(* The MT4 reader (class Mt4HTMLReader of data/mt4_reader.py): _parse feeds *)
(* the rows of the report to the ledger it was given, one step per row.     *)
(* The report is any sequence of the rows below in which an order number    *)
(* opens once; rows of Type modify are dropped when the report is loaded.   *)

\* self._metadata.symbol
Mt4Symbol == "EURUSD"

\* a row of the report
Mt4Deal(order, type, time, price, profit) ==
    [Order |-> order, Type |-> type, Time |-> time, Size |-> 1,
     Price |-> price, Profit |-> profit]

\* two buy orders of one size and a sell order, each with the row that opens
\* it and the row that closes it, and a row that neither opens nor closes
Mt4Deals ==
    {Mt4Deal(1, "buy", 1, 11, 0),   Mt4Deal(1, "t/p", 2, 21, 5),
     Mt4Deal(2, "buy", 1, 12, 0),   Mt4Deal(2, "close", 2, 22, 6),
     Mt4Deal(3, "sell", 1, 13, 0),  Mt4Deal(3, "s/l", 2, 23, -7),
     Mt4Deal(4, "delete", 2, 14, 0)}

\* _get_pos_type of data/mt4_reader.py, for a row of Type buy or sell
Mt4_get_pos_type(deal) == IF deal.Type = "buy" THEN BUY ELSE SELL

\* Trade(time=..., symbol=..., pos_type=..., volume=deal.Size, ...), swap and
\* commission at their default 0, the comment self._comment, which is None
Mt4Trade(deal, pos_type) ==
    [time |-> deal.Time, symbol |-> Mt4Symbol, pos_type |-> pos_type,
     volume |-> deal.Size, price |-> deal.Price, comment |-> None,
     swap |-> 0, commission |-> 0, profit |-> deal.Profit]

\* the trade of a closing row, its side the inverse of the order's
Mt4CloseTradeInverse(deal, open_deal) ==
    Mt4Trade(deal, inverse(Mt4_get_pos_type(open_deal)))

\* the trade of a closing row: its side is the side of the row that opened
\* the order
Mt4CloseTrade(deal, open_deal) == Mt4Trade(deal, Mt4_get_pos_type(open_deal))

KeyError(key) == [exc |-> "KeyError", msg |-> <<key>>]

\* _parse goes on: nothing was raised and the loop is not over
Parsing == raised = NoException /\ call.op # "_parse"

\* one pass of the loop of _parse: self._process_deal(row)
Mt4_process_deal(deal) ==
    /\ Parsing
    /\ UNCHANGED _data
    /\ IF deal.Type \in {"buy", "sell"}
       THEN /\ deal.Order \notin DOMAIN _order_map
            /\ _order_map' = [k \in DOMAIN _order_map \cup {deal.Order} |->
                                IF k = deal.Order THEN deal ELSE _order_map[k]]
            /\ open_position(Mt4Trade(deal, Mt4_get_pos_type(deal)))
       ELSE IF deal.Type \in {"close", "t/p", "s/l"}
       THEN /\ UNCHANGED _order_map
            /\ IF deal.Order \notin DOMAIN _order_map
               THEN /\ call' = [op |-> "_process_deal", args |-> deal]
                    /\ raised' = KeyError(deal.Order)
                    /\ ret' = None
                    /\ again' = FALSE
                    /\ UNCHANGED ledger
               ELSE close_position(Mt4CloseTrade(deal, _order_map[deal.Order]))
       ELSE /\ UNCHANGED _order_map
            /\ call' = [op |-> "_process_deal", args |-> deal]
            /\ raised' = NoException
            /\ ret' = None
            /\ again' = FALSE
            /\ UNCHANGED ledger

\* the end of _parse, the rows of the report exhausted
_parse ==
    /\ Parsing
    /\ call' = [op |-> "_parse", args |-> <<>>]
    /\ raised' = IF has_open_positions
                 THEN ValueError(<<"Some positions are still open">>)
                 ELSE NoException
    /\ ret' = None
    /\ again' = FALSE
    /\ UNCHANGED ledger
    /\ UNCHANGED readers

NextMt4 ==
    \/ \E deal \in Mt4Deals : Mt4_process_deal(deal)
    \/ _parse

Mt4 == Init /\ [][NextMt4]_vars

\* a closing row of the report
Mt4Closing(deal) == deal.Type \in {"close", "t/p", "s/l"}

\* the open positions a closing row of an order can match: those of the
\* symbol, the side of the order and the size of the row
Mt4Candidates(deal) ==
    LET side == IF _order_map[deal.Order].Type = "buy" THEN BUY ELSE SELL
    IN  SelectSeq(_opened_positions,
                  LAMBDA pos : Key(pos) = <<Mt4Symbol, side, deal.Size>>)

\* the position the opening row of the order created: in Mt4Deals no two
\* opening rows have one price
OfOrder(pos, order) ==
    /\ pos.open_price = _order_map[order].Price
    /\ pos.open_time = _order_map[order].Time

\* C25 as stated: a closing row of order K that the ledger accepts closes the
\* position the opening row of order K created, whatever else is open.
C25_ClosesItsOrder ==
    [][\A deal \in Mt4Deals :
         (Mt4_process_deal(deal) /\ Mt4Closing(deal) /\ raised' = NoException) =>
            OfOrder(Last(_closed_positions'), deal.Order)]_vars

\* C25 amended: a closing row of a known order K closes the oldest open
\* position of the symbol, of the side of order K and of the row's size, and
\* gives it the row's time, price and profit; that position is the one of
\* order K when no older position of that side and size is open.
C25_ClosesOldestOfKey ==
    [][\A deal \in Mt4Deals :
         (Mt4_process_deal(deal) /\ Mt4Closing(deal)
            /\ deal.Order \in DOMAIN _order_map) =>
            LET same == Mt4Candidates(deal) IN
            /\ raised' = NoException <=> same # <<>>
            /\ same # <<>> =>
                 LET q == Last(_closed_positions') IN
                 /\ q.id = same[1].id
                 /\ q.open_price = same[1].open_price
                 /\ q.close_time = Some(deal.Time)
                 /\ q.close_price = Some(deal.Price)
                 /\ q.profit = same[1].profit + deal.Profit
                 /\ OfOrder(same[1], deal.Order) => OfOrder(q, deal.Order)]_vars

\* C25 witness: orders 1 and 2 bought one size; the closing row of order 2
\* came first and closed the position of order 1, that of order 2 stays open
C25_Witness ==
    /\ JustClosed
    /\ call.args.price = 22
    /\ Last(_closed_positions).open_price = 11
    /\ Len(_opened_positions) = 1
    /\ _opened_positions[1].open_price = 12

-----------------------------------------------------------------------------
(* Deals fed in the order of their times *)

\* Position.is_open()
is_open(pos) == pos.close_time = None

\* the times of the deals the ledger has taken
Times ==
    {d.time : d \in Range(_deposits)}
      \cup {p.open_time : p \in Opened \cup Closed}
      \cup {p.close_time[1] : p \in Closed}

\* the latest of them
Clock == IF Times = {} THEN 0 ELSE CHOOSE t \in Times : \A u \in Times : u <= t

\* the ledger fed with deals none of which is earlier than a deal it has taken
NextOrdered ==
    \/ \E d \in Deposits :
         d.time >= Clock /\ deposit(d.time, d.amount) /\ UNCHANGED readers
    \/ \E trade \in Trade :
         trade.time >= Clock /\ open_position(trade) /\ UNCHANGED readers
    \/ \E trade \in Trade :
         trade.time >= Clock /\ close_position(trade) /\ UNCHANGED readers

Ordered == Init /\ [][NextOrdered]_vars

\* C26: with the deals fed in non-decreasing order of time, every closed
\* position has a close time not before its open time; every position of the
\* open list has no close time and no close price, and every position of the
\* closed list has both.
C26_TimeConsistency ==
    /\ \A p \in Opened : is_open(p) /\ p.close_price = None
    /\ \A p \in Closed :
         /\ ~is_open(p)
         /\ p.close_price # None
         /\ p.close_time[1] >= p.open_time

\* C26 witness: one position closed later than it was opened, one closed at
\* the time it was opened, and one still open
C26_Witness ==
    /\ \E p \in Closed : p.close_time[1] > p.open_time
    /\ \E p \in Closed : p.close_time[1] = p.open_time
    /\ Opened # {}

-----------------------------------------------------------------------------
(* The ledger of data/mt5_reader.py: its own class FifoPortfolio, whose     *)
(* open_position and close_position take the fields of a deal as arguments  *)
(* one by one.  Its methods are functions here, from the ledger before the  *)
(* call to the ledger after it and the exception raised; a is the record of *)
(* the arguments of the call.                                               *)

\* the ledger as a value
Portfolio ==
    [_deposits |-> _deposits, _opened_positions |-> _opened_positions,
     _closed_positions |-> _closed_positions, _last_id |-> _last_id]

Outcome(self, exc) == [self |-> self, raised |-> exc]

Mt5_deposit(self, time, amount) ==
    LET id == self._last_id + 1 IN
    Outcome([self EXCEPT !._last_id = id,
                         !._deposits = Append(@, Deposit(id, time, amount))],
            NoException)

\* Position(...) of open_position with the profit of the opening deal dropped
Mt5PositionNoProfit(id, a) ==
    [id |-> id, open_time |-> a.time, symbol |-> a.symbol, type |-> a.pos_type,
     volume |-> a.volume, open_price |-> a.price,
     comment |-> IF isna(a.comment) THEN "" ELSE a.comment[1],
     close_time |-> None, close_price |-> None,
     swap |-> a.swap, commission |-> a.commission, profit |-> 0]

\* Position(id=self._last_id, open_time=time, ..., profit=profit)
Mt5Position(id, a) ==
    [id |-> id, open_time |-> a.time, symbol |-> a.symbol, type |-> a.pos_type,
     volume |-> a.volume, open_price |-> a.price,
     comment |-> IF isna(a.comment) THEN "" ELSE a.comment[1],
     close_time |-> None, close_price |-> None,
     swap |-> a.swap, commission |-> a.commission, profit |-> a.profit]

Mt5_open_position(self, a) ==
    LET id == self._last_id + 1 IN
    Outcome([self EXCEPT !._last_id = id,
                         !._opened_positions = Append(@, Mt5Position(id, a))],
            NoException)

Mt5_close_position(self, a) ==
    LET opened == SelectSeq(self._opened_positions,
                            LAMBDA pos : /\ pos.symbol = a.symbol
                                         /\ pos.type = a.pos_type
                                         /\ pos.volume = a.volume)
    IN  IF opened = <<>>
        THEN Outcome(self, ValueError(<<"No open position for symbol: ", a.symbol,
                                        " and type: ", a.pos_type,
                                        " and volume: ", a.volume>>))
        ELSE LET pos == opened[1]
                 closed == [pos EXCEPT
                              !.close_time = Some(a.time),
                              !.close_price = Some(a.price),
                              !.comment = IF ~isna(a.comment)
                                          THEN @ \o " [" \o a.comment[1] \o "]"
                                          ELSE @,
                              !.swap = @ + a.swap,
                              !.commission = @ + a.commission,
                              !.profit = @ + a.profit]
             IN  Outcome([self EXCEPT
                            !._opened_positions = ListRemove(@, pos),
                            !._closed_positions = Append(@, closed)],
                         NoException)

\* deposits = pd.DataFrame([[...] for tx in self._deposits], columns=[...])
Mt5DepositsFrame(self) ==
    DataFrame(
        [i \in 1..Len(self._deposits) |->
            LET tx == self._deposits[i] IN
            <<"Deposit", tx.id, tx.amount, tx.time, tx.time, "Deposit",
              0, 0, 0, 0, 0>>],
        DepositsColumns)

\* positions = pd.DataFrame([[...] for pos in self._closed_positions], ...)
Mt5PositionsFrame(self) ==
    DataFrame(
        [i \in 1..Len(self._closed_positions) |->
            LET pos == self._closed_positions[i] IN
            <<"Closed position", pos.id, pos.symbol, pos.volume, pos.type,
              pos.open_price, pos.close_price[1], pos.open_time,
              pos.close_time[1], pos.comment, pos.swap, pos.commission,
              pos.profit>>],
        PositionsColumns)

\* as_cannonical_data of the ledger of data/mt5_reader.py: it returns
\* result[CANONICAL_COL_ORDER], the index as sort_values left it
Mt5_as_cannonical_data(self) ==
    LET result == sort_values(
                    concat(reindex(Mt5DepositsFrame(self), ResultColumns,
                                   DepositsPlaces),
                           reindex(Mt5PositionsFrame(self), ResultColumns,
                                   PositionsPlaces)),
                    "Ticket")
        r1 == SetColumn(result, "Net profit", NetProfit(result))
        r2 == SetColumn(r1, "T/P", Broadcast(r1, 0))
        r3 == SetColumn(r2, "S/L", Broadcast(r2, 0))
        r4 == SetColumn(r3, "Magic number", Broadcast(r3, 0))
    IN  reindex(r4, CANONICAL_COL_ORDER, CanonicalPlaces)

\* C28: the ledger of data/base.py and the ledger of data/mt5_reader.py, given
\* one call with the same arguments on equal ledgers, raise alike and end
\* with equal lists and counters; so from the empty ledger they stay equal
\* through every sequence of deposit, open_position and close_position, and
\* an export gives the same columns and the same rows in the same order: the
\* two tables are equal once the index labels of the second are reset.
C28_CopiesAgree ==
    [][/\ call'.op = "deposit" =>
            LET o == Mt5_deposit(Portfolio, call'.args.time, call'.args.amount)
            IN  o.self = Portfolio' /\ o.raised = raised'
       /\ call'.op = "open_position" =>
            LET o == Mt5_open_position(Portfolio, call'.args)
            IN  o.self = Portfolio' /\ o.raised = raised'
       /\ call'.op = "close_position" =>
            LET o == Mt5_close_position(Portfolio, call'.args)
            IN  o.self = Portfolio' /\ o.raised = raised'
       /\ call'.op = "as_cannonical_data" =>
            ret'[1] = reset_index(Mt5_as_cannonical_data(Portfolio))]_vars

\* C28 witness: a table of three rows exported, of a deposit made after a
\* position was opened, which the two copies label differently
C28_Witness ==
    /\ Exported
    /\ Len(Rows) = MaxTickets
    /\ _deposits # <<>>
    /\ _closed_positions # <<>>
    /\ Rows = Mt5_as_cannonical_data(Portfolio).rows
    /\ ret[1].index # Mt5_as_cannonical_data(Portfolio).index

-----------------------------------------------------------------------------
(* Mt5Reader.get_cannoncial_data as one call on a reader that has loaded    *)
(* its report: the whole loop over self._data, the completeness check and   *)
(* the export, on the ledger the reader was constructed with.               *)

\* the reports: every sequence of up to MaxTickets deals
Reports == UNION {[1..n -> Mt5Deals] : n \in 0..MaxTickets}

\* a reader after __init__: an empty ledger and the report it loaded
InitLoaded ==
    /\ _deposits = <<>>
    /\ _opened_positions = <<>>
    /\ _closed_positions = <<>>
    /\ _last_id = 0
    /\ call = [op |-> "__init__", args |-> <<>>]
    /\ raised = NoException
    /\ ret = None
    /\ again = FALSE
    /\ _data \in Reports
    /\ _order_map = <<>>

\* self._process_deal(deal) on the reader's ledger
Mt5_process_deal(self, deal) ==
    IF deal.Type = "balance"
    THEN Mt5_deposit(self, deal.Time, deal.Profit)
    ELSE IF deal.Direction \in {"in", "out"} /\ deal.Type \notin {"buy", "sell"}
    THEN Outcome(self, InvalidDealType(deal))
    ELSE IF deal.Direction = "in"
    THEN Mt5_open_position(self, Mt5Trade(deal, _get_pos_type(deal)))
    ELSE IF deal.Direction = "out"
    THEN Mt5_close_position(self, Mt5Trade(deal, inverse(_get_pos_type(deal))))
    ELSE Outcome(self, NoException)

\* for _, row in self._data.iterrows(): self._process_deal(row), from row i
\* on, left at the first exception
RECURSIVE iterrows(_, _, _)
iterrows(self, rows, i) ==
    IF i > Len(rows)
    THEN Outcome(self, NoException)
    ELSE LET o == Mt5_process_deal(self, rows[i])
         IN  IF o.raised # NoException THEN o ELSE iterrows(o.self, rows, i + 1)

\* reader.get_cannoncial_data()
call_get_cannoncial_data ==
    LET o == iterrows(Portfolio, _data, 1) IN
    /\ o.self._last_id <= MaxTickets
    /\ _deposits' = o.self._deposits
    /\ _opened_positions' = o.self._opened_positions
    /\ _closed_positions' = o.self._closed_positions
    /\ _last_id' = o.self._last_id
    /\ call' = [op |-> "get_cannoncial_data", args |-> <<>>]
    /\ IF o.raised # NoException
       THEN /\ raised' = o.raised
            /\ ret' = None
       ELSE IF Len(o.self._opened_positions) > 0
       THEN /\ raised' = ValueError(<<"Some positions are still open">>)
            /\ ret' = None
       ELSE /\ raised' = NoException
            /\ ret' = Some(Mt5_as_cannonical_data(o.self))
    /\ again' = FALSE
    /\ UNCHANGED readers

NextLoaded == call_get_cannoncial_data

Loaded == InitLoaded /\ [][NextLoaded]_vars

\* C27: a call of get_cannoncial_data() that follows a call which returned a
\* table returns that table again, and the ledger is what it was.
C27_SecondCallSameTable ==
    [][(call.op = "get_cannoncial_data" /\ ret # None) =>
         /\ raised' = NoException
         /\ ret' = ret
         /\ UNCHANGED ledger]_vars

====
